---- MODULE Spec2Model ----
(***************************************************************************)
(* A model of tachibk-converter.py: the schema scanner (CLASS_RE,          *)
(* PROTONUMBER_RE, parse_model), the schema bootstrap (fetch_schema, the   *)
(* module-level try/except around "from schema_pb2 import Backup") and the *)
(* container codec (read_backup, parse_backup, write_json, parse_json,     *)
(* write_backup, __main__).                                                *)
(*                                                                         *)
(* Source text is modelled as a sequence of tokens.  A token is a record   *)
(* with a kind k:                                                          *)
(*   "class"  a line that starts with `class Name(` or `data class Name(`, *)
(*            opening parenthesis included                                 *)
(*   "("  ")" a parenthesis                                                *)
(*   "field"  the text of one `val`/`var` declaration, from its leading    *)
(*            annotation to the character after its type; it holds no      *)
(*            parenthesis other than the annotation's own, balanced pair   *)
(*   "x"      any other text without parentheses                           *)
(* An absent regular-expression group (None) is the empty sequence and a   *)
(* present one is a one-element sequence.                                  *)
(***************************************************************************)
EXTENDS Integers, Sequences, FiniteSets

VARIABLES
    \* parse_model
    data,       \* the downloaded text being scanned
    pos,        \* re.finditer(CLASS_RE, data): where the next search starts
    name,       \* the current CLASS_RE match (<<>>: none yet)
    fpos,       \* re.finditer(PROTONUMBER_RE, defs): where the next search starts
    field,      \* the current PROTONUMBER_RE match (<<>>: none)
    message,    \* the list parse_model builds
    matches,    \* every CLASS_RE match the loop was handed, in order
    spc,        \* parse_model's position: "idle", "classes", "fields", "done", "raised"
    \* the working directory, which outlives a run
    files,      \* path -> content
    lastPayload,\* history: the payload of the latest complete decompression
    \* one run of the script
    args,       \* argp.parse_args(): input, output, fork; given: -o was passed
    pc,         \* where the run is; "idle" between runs
    status,     \* how the latest run ended: "none", "running", "exit0", "exit1", "traceback"
    exc,        \* the uncaught exception of a run that ended "traceback"
    printed,    \* the diagnostics the program printed in this run
    requests,   \* the requests.get calls of this run, each with its outcome
    opened,     \* the paths this run opened for reading
    files0,     \* history: the working directory when the run started
    boot,       \* "pending", "imported" (first import worked), "generating"
    Backup,     \* the imported serializer class: the variant it was built from
    git,        \* fetch_schema: the directory listing
    gi,         \* fetch_schema: the entry the loop is at
    flist,      \* fetch_schema's files, then the module-level loop's remainder
    schema,     \* the schema lines collected so far
    protocRan,  \* the schema compiler was invoked in this run
    backup_data,\* read_backup's result
    msg         \* the parsed message

scanVars == <<data, pos, name, fpos, field, message, matches, spc>>
dirVars == <<files, lastPayload>>
runVars == <<args, pc, status, exc, printed, requests, opened, files0, boot, Backup,
             git, gi, flist, schema, protocRan, backup_data, msg>>
vars == <<scanVars, dirVars, runVars>>

(***************************************************************************)
(* Bounds                                                                  *)
(***************************************************************************)
MaxPairs == 4       \* pairs of parentheses in a generated class body

None == <<>>
Some(v) == <<v>>

LP == [k |-> "("]
RP == [k |-> ")"]
Other == [k |-> "x"]

(***************************************************************************)
(* DATA_TYPES and the type argument of the format call.                    *)
(***************************************************************************)
DATA_TYPES ==
    [t \in {"String", "Int", "Long", "Boolean", "Float", "PreferenceValue"} |->
        CASE t = "String" -> "string"
          [] t = "Int" -> "int32"
          [] t = "Long" -> "int64"
          [] t = "Boolean" -> "bool"
          [] t = "Float" -> "float"
          [] t = "PreferenceValue" -> "bytes"]

\* DATA_TYPES.get(type, DATA_TYPES.get(list, list or type))
WireType(type, list) ==
    IF type # None /\ type[1] \in DOMAIN DATA_TYPES THEN Some(DATA_TYPES[type[1]])
    ELSE IF list # None /\ list[1] \in DOMAIN DATA_TYPES THEN Some(DATA_TYPES[list[1]])
    ELSE IF list # None THEN list ELSE type

(***************************************************************************)
(* CLASS_RE on tokens.  The pattern after `class Name(` is                 *)
(*   defs  = (?:[^)(]+|\((?:[^)(]+|\([^)(]*\))*\))*     followed by \)     *)
(* Every alternative is decided by its first character, and giving back    *)
(* part of a match never exposes a `)`, so the greedy scan below is the    *)
(* only way the pattern can match.  A failed sub-match is position 0.      *)
(***************************************************************************)
IsOpen(t) == t.k \in {"(", "class"}
IsClose(t) == t.k = ")"
IsParen(t) == IsOpen(t) \/ IsClose(t)

\* [^)(]* from j: the position after the run of non-parenthesis text
RECURSIVE SkipPlain(_, _)
SkipPlain(text, j) ==
    IF j <= Len(text) /\ ~IsParen(text[j]) THEN SkipPlain(text, j + 1) ELSE j

\* \([^)(]*\) at j: the position after it, or 0
Group2(text, j) ==
    IF j <= Len(text) /\ IsOpen(text[j])
    THEN LET k == SkipPlain(text, j + 1)
         IN  IF k <= Len(text) /\ IsClose(text[k]) THEN k + 1 ELSE 0
    ELSE 0

\* a faulty variant of Star1: the pattern without its innermost level, (?:[^)(]+)*
Star1Flat(text, j) == SkipPlain(text, j)

\* (?:[^)(]+|\([^)(]*\))* from j: the position after it
RECURSIVE Star1(_, _)
Star1(text, j) ==
    IF j > Len(text) THEN j
    ELSE IF ~IsParen(text[j]) THEN Star1(text, SkipPlain(text, j))
    ELSE IF IsOpen(text[j]) /\ Group2(text, j) # 0 THEN Star1(text, Group2(text, j))
    ELSE j

\* \((?:[^)(]+|\([^)(]*\))*\) at j: the position after it, or 0
Group1(text, j) ==
    IF j <= Len(text) /\ IsOpen(text[j])
    THEN LET k == Star1(text, j + 1)
         IN  IF k <= Len(text) /\ IsClose(text[k]) THEN k + 1 ELSE 0
    ELSE 0

\* the defs group from j: the position after it
RECURSIVE Star0(_, _)
Star0(text, j) ==
    IF j > Len(text) THEN j
    ELSE IF ~IsParen(text[j]) THEN Star0(text, SkipPlain(text, j))
    ELSE IF IsOpen(text[j]) /\ Group1(text, j) # 0 THEN Star0(text, Group1(text, j))
    ELSE j

\* CLASS_RE tried at position i: the position of the closing `\)`, or 0
ClassMatchAt(text, i) ==
    IF i <= Len(text) /\ text[i].k = "class"
    THEN LET k == Star0(text, i + 1)
         IN  IF k <= Len(text) /\ IsClose(text[k]) THEN k ELSE 0
    ELSE 0

\* re.finditer: the first position >= i where CLASS_RE matches, or 0
RECURSIVE ClassSearch(_, _)
ClassSearch(text, i) ==
    IF i > Len(text) THEN 0
    ELSE IF ClassMatchAt(text, i) # 0 THEN i
    ELSE ClassSearch(text, i + 1)

\* the match object: group('name'), group('defs') and where the match ends
ClassMatch(text, i) ==
    [name |-> text[i].name,
     defs |-> SubSeq(text, i + 1, ClassMatchAt(text, i) - 1),
     end  |-> ClassMatchAt(text, i)]

(***************************************************************************)
(* PROTONUMBER_RE on a field token.  The token records the shape of the    *)
(* declaration's text:                                                     *)
(*   lead    "annot"      `@ProtoNumber(N)` first on its line, then va[rl] *)
(*           "annot_mid"  `@ProtoNumber(N) val` after other text on a line *)
(*           "commented"  `// @ProtoNumber(N) val`                         *)
(*           "bare"       `val` in column 0 (or first in the body)         *)
(*           "bare_in"    `val` after indentation or other text            *)
(*   number  N                                                             *)
(*   tshape  "List", "Set" (`List<T>`, `Set<T>`), "plain" (`T`),           *)
(*           "generic" (`Map<K, V>`, `List<List<T>>`: \w+ takes the outer  *)
(*           word, and `<` follows it)                                     *)
(*   tname   T, or the outer word of a generic type                        *)
(*   nullable  a `?` right after the type                                  *)
(*   dflt    "none", "spaced" (` = v`), "tight" (`=v`), "colon" (`: = v`)  *)
(***************************************************************************)
\* (?:^\s*(?!\/\/\s*)@ProtoNumber\((?P<number>\d+)\)\s*|data class \w+\(|^)va[rl]
FieldRecognised(t) == t.k = "field" /\ t.lead \in {"annot", "bare"}

IsCollection(t) == t.tshape \in {"List", "Set"}

\* (?P<optional>\?|(:?\s+=))? right after the type
OptionalGroup(t) ==
    IF t.tshape = "generic" THEN None
    ELSE IF t.nullable THEN Some("?")
    ELSE IF t.dflt = "spaced" THEN Some(" =")
    ELSE IF t.dflt = "colon" THEN Some(": =")
    ELSE None

\* the groups of a match on token t
FieldGroups(t) ==
    [number   |-> IF t.lead = "annot" THEN Some(t.number) ELSE None,
     name     |-> t.name,
     list     |-> IF IsCollection(t) THEN Some(t.tname) ELSE None,
     type     |-> IF IsCollection(t) THEN None ELSE Some(t.tname),
     optional |-> OptionalGroup(t),
     src      |-> t]

\* re.finditer: the first position >= i of defs where PROTONUMBER_RE matches, or 0
RECURSIVE FieldSearch(_, _)
FieldSearch(defs, i) ==
    IF i > Len(defs) THEN 0
    ELSE IF FieldRecognised(defs[i]) THEN i
    ELSE FieldSearch(defs, i + 1)

(***************************************************************************)
(* The arguments of the format call, lines 81-98.                          *)
(***************************************************************************)
\* a faulty variant of RepeatedArg: the optional marker is tested before the collection
RepeatedArgOptionalFirst(f) ==
    IF f.optional # None THEN "optional"
    ELSE IF f.list # None THEN "repeated"
    ELSE "required"

\* 'repeated' if list else 'optional' if optional else 'required'
RepeatedArg(f) ==
    IF f.list # None THEN "repeated"
    ELSE IF f.optional # None THEN "optional"
    ELSE "required"

StartsWith(s, prefix) ==
    Len(s) >= Len(prefix) /\ SubSeq(s, 1, Len(prefix)) = prefix

Broken == <<"B", "r", "o", "k", "e", "n">>

\* number or 1 if not name.startswith('Broken') else int(number) + 1
\* int(None) raises TypeError
TagNumber(number, className) ==
    IF ~StartsWith(className, Broken)
    THEN [raised |-> FALSE, v |-> IF number # None THEN number[1] ELSE 1]
    ELSE IF number # None
         THEN [raised |-> FALSE, v |-> number[1] + 1]
         ELSE [raised |-> TRUE, v |-> 0]

FieldLine(f, className) ==
    [k |-> "field",
     repeated |-> RepeatedArg(f),
     type |-> WireType(f.type, f.list),
     name |-> f.name,
     number |-> TagNumber(f.number, className).v]

(***************************************************************************)
(* parse_model                                                             *)
(***************************************************************************)
\* for name in re.finditer(CLASS_RE, data): message.append('message {name} {')
ClassFound ==
    /\ spc = "classes"
    /\ ClassSearch(data, pos) # 0
    /\ LET m == ClassMatch(data, ClassSearch(data, pos))
       IN  /\ name' = Some(m)
           /\ matches' = Append(matches, [name |-> m.name, defs |-> m.defs])
           /\ message' = Append(message, [k |-> "message", name |-> m.name])
           /\ pos' = m.end + 1
    /\ fpos' = 1
    /\ field' = None
    /\ spc' = "fields"
    /\ UNCHANGED <<data, dirVars, runVars>>

\* for field in re.finditer(PROTONUMBER_RE, defs): message.append(line)
FieldFound ==
    /\ spc = "fields"
    /\ FieldSearch(name[1].defs, fpos) # 0
    /\ LET i == FieldSearch(name[1].defs, fpos)
           f == FieldGroups(name[1].defs[i])
       IN  /\ field' = Some(f)
           /\ fpos' = i + 1
           /\ IF TagNumber(f.number, name[1].name).raised
              THEN spc' = "raised" /\ UNCHANGED message
              ELSE /\ message' = Append(message, FieldLine(f, name[1].name))
                   /\ UNCHANGED spc
    /\ UNCHANGED <<data, pos, name, matches, dirVars, runVars>>

\* the field loop ends: message.append('}\n')
ClassDone ==
    /\ spc = "fields"
    /\ FieldSearch(name[1].defs, fpos) = 0
    /\ message' = Append(message, [k |-> "}"])
    /\ field' = None
    /\ spc' = "classes"
    /\ UNCHANGED <<data, pos, name, fpos, matches, dirVars, runVars>>

\* the class loop ends: return message
ScanDone ==
    /\ spc = "classes"
    /\ ClassSearch(data, pos) = 0
    /\ spc' = "done"
    /\ UNCHANGED <<data, pos, name, fpos, field, message, matches, dirVars, runVars>>

(***************************************************************************)
(* Paths and file contents.  A path is the sequence of its dot-separated   *)
(* parts, so that str.endswith('.tachibk') is a test on its last parts.    *)
(* The script is run from the directory it lives in: the files it writes   *)
(* and the module it imports are in the same place.                        *)
(***************************************************************************)
InTachibk == <<"in", "tachibk">>
InProtoGz == <<"in", "proto", "gz">>
InBin == <<"in", "bin">>
InJson == <<"in", "json">>
OutTachibk == <<"out", "tachibk">>
OutProtoGz == <<"out", "proto", "gz">>
OutBin == <<"out", "bin">>
OutputJson == <<"output", "json">>           \* the default of --output
EncodedBackup == <<"encoded_backup", "tachibk">>
ExtractedTachibk == <<"extracted_tachibk">>
SchemaProto == <<"schema", "proto">>
SchemaPb2 == <<"schema_pb2", "py">>

AllPaths == {InTachibk, InProtoGz, InBin, InJson, OutTachibk, OutProtoGz, OutBin,
             OutputJson, EncodedBackup, ExtractedTachibk, SchemaProto, SchemaPb2}

FORKS == {"mihon", "sy", "j2k"}

\* str(args.input): str(None) is 'None'
Str(path) == IF path = None THEN <<"None">> ELSE path

\* path.endswith('.' + '.'.join(suffix))
EndsWith(path, suffix) ==
    /\ Len(path) > Len(suffix)
    /\ SubSeq(path, Len(path) - Len(suffix) + 1, Len(path)) = suffix

IsCompressedName(path) == EndsWith(path, <<"tachibk">>) \/ EndsWith(path, <<"proto", "gz">>)

\* Backup values; the JSON mirror of "m1" holds a `true`, that of "m2" no literal
Messages == {"m1", "m2"}

Absent == [t |-> "absent"]
Junk == [t |-> "junk"]          \* bytes that are no Backup message
BadGz == [t |-> "badgz"]        \* bytes that are no gzip stream
BadJson == [t |-> "badjson"]    \* text that is no JSON document

\* gzip.open(path, 'wb').write(b)
GzipCompress(b) == [t |-> "gz", b |-> b]
\* gzip.open(path, 'rb').read(): None stands for BadGzipFile / EOFError
GzipDecompress(c) == IF c.t = "gz" THEN Some(c.b) ELSE None
\* Backup.SerializeToString()
SerializeToString(m) == [t |-> "pb", m |-> m]
\* Backup.ParseFromString(b): None stands for DecodeError
ParseFromString(b) == IF b.t = "pb" THEN Some(b.m) ELSE None
\* MessageToJson(message, ensure_ascii=False)
MessageToJson(m) == [t |-> "json", m |-> m]
\* Parse(json_string, Backup()): None stands for ParseError
Parse(c) == IF c.t = "json" THEN Some(c.m) ELSE None

\* protoc's schema_pb2.py for a schema.proto
Compile(proto) == [t |-> "pb2", fork |-> proto.fork]

\* `from schema_pb2 import Backup`: "ok", "ModuleNotFoundError", "NameError"
\* (a file of JSON text that holds true, false or null, run as Python) or
\* "ImportError" (any other file without a Backup)
ImportOutcome(c) ==
    IF c.t = "pb2" THEN "ok"
    ELSE IF c.t = "absent" THEN "ModuleNotFoundError"
    ELSE IF c.t = "json" /\ c.m = "m1" THEN "NameError"
    ELSE "ImportError"

\* open(path) of a path outside the modelled directory finds nothing
FileAt(f, path) == IF path \in DOMAIN f THEN f[path] ELSE Absent

DirFresh ==
    /\ files = [p \in AllPaths |-> Absent]
    /\ lastPayload = None

NoArgs == [input |-> None, output |-> OutputJson, fork |-> "mihon", given |-> FALSE]

RunIdle ==
    /\ args = NoArgs
    /\ pc = "idle"
    /\ status = "none"
    /\ exc = "none"
    /\ printed = {}
    /\ requests = <<>>
    /\ opened = {}
    /\ files0 = files
    /\ boot = "pending"
    /\ Backup = None
    /\ git = <<>>
    /\ gi = 1
    /\ flist = <<>>
    /\ schema = <<>>
    /\ protocRan = FALSE
    /\ backup_data = None
    /\ msg = None

(***************************************************************************)
(* The texts parse_model is run on.                                        *)
(***************************************************************************)
NBrokenF == <<"B", "r", "o", "k", "e", "n", "F">>
NLower == <<"b", "r", "o", "k", "e", "n">>
NInfix == <<"A", "B", "r", "o", "k", "e", "n">>
NBackup == <<"B", "a", "c", "k", "u", "p">>
ClassNames == {NBrokenF, Broken, NLower, NInfix, NBackup}

Header(n) == [k |-> "class", name |-> n]

FieldTokens ==
    [k : {"field"},
     lead : {"annot", "annot_mid", "commented", "bare", "bare_in"},
     number : {0, 3},
     tshape : {"List", "Set", "plain", "generic"},
     tname : {"Int", "BackupManga"},
     name : {"f"},
     nullable : BOOLEAN,
     dflt : {"none", "spaced", "tight", "colon"}]

PlainField == [k |-> "field", lead |-> "bare", number |-> 0, tshape |-> "plain",
               tname |-> "Long", name |-> "g", nullable |-> FALSE, dflt |-> "none"]

RECURSIVE Balanced(_, _, _)
Balanced(s, i, depth) ==
    IF i > Len(s) THEN depth = 0
    ELSE IF IsOpen(s[i]) THEN Balanced(s, i + 1, depth + 1)
    ELSE depth > 0 /\ Balanced(s, i + 1, depth - 1)

\* every balanced arrangement of at most MaxPairs pairs of parentheses
Nestings ==
    {s \in UNION {[1..(2 * n) -> {LP, RP}] : n \in 0..MaxPairs} : Balanced(s, 1, 0)}

\* one class with one declaration of every shape, followed by a plain one
FieldFiles ==
    {<<Header(n), t, PlainField, RP>> : n \in ClassNames, t \in FieldTokens}

\* one or two classes whose bodies nest parentheses
NestClass(n, b) == <<Header(n), PlainField>> \o b \o <<Other, RP, Other>>
NestFiles ==
    {NestClass(NBackup, b) : b \in Nestings}
    \cup {NestClass(NBackup, b) \o NestClass(NInfix, c) : b \in Nestings, c \in Nestings}

ScanInit ==
    /\ data \in FieldFiles \cup NestFiles
    /\ pos = 1
    /\ name = None
    /\ fpos = 1
    /\ field = None
    /\ message = <<>>
    /\ matches = <<>>
    /\ spc = "classes"
    /\ DirFresh
    /\ RunIdle

ScanNext == ClassFound \/ FieldFound \/ ClassDone \/ ScanDone

SpecScan == ScanInit /\ [][ScanNext]_vars

(***************************************************************************)
(* The remote tree of a fork, and what a request can come back with.       *)
(***************************************************************************)
TopListing ==
    <<[type |-> "file", name |-> "Backup.kt"],
      [type |-> "symlink", name |-> "link"],
      [type |-> "dir", name |-> "legacy"]>>

SubListing ==
    <<[type |-> "file", name |-> "BrokenBackupHistory.kt"],
      [type |-> "dir", name |-> "deeper"]>>

AnnotField(n) == [k |-> "field", lead |-> "annot", number |-> n, tshape |-> "List",
                  tname |-> "BackupManga", name |-> "f", nullable |-> FALSE,
                  dflt |-> "spaced"]

\* the text a successful download of a model file returns
RemoteTexts(file) ==
    IF file = "Backup.kt"
    THEN {<<Header(NBackup), AnnotField(1), RP>>}
    ELSE {<<Header(NBrokenF), AnnotField(0), RP>>,
          <<Header(NBrokenF), PlainField, RP>>}

\* requests.get(url).json() of a listing: a transport exception, the listing, or
\* an error response, whose body is a JSON object with a message (what the API
\* sends) or no JSON at all (what a proxy sends)
ListingResponses ==
    {[outcome |-> "ok", body |-> "listing"],
     [outcome |-> "exception", body |-> "none"],
     [outcome |-> "error", body |-> "message"],
     [outcome |-> "error", body |-> "not_json"]}

\* requests.get(url).text of a model file; an error response's text is its body
DownloadResponses(file) ==
    {[outcome |-> "ok", text |-> t] : t \in RemoteTexts(file)}
    \cup {[outcome |-> "error", text |-> <<Other>>],
          [outcome |-> "exception", text |-> <<>>]}

\* iterating a listing body that is no list: `for entry in git: entry.get(...)`
ListingRaises(r) ==
    CASE r.outcome = "exception" -> "ConnectionError"
      [] r.outcome = "error" /\ r.body = "message" -> "AttributeError"
      [] r.outcome = "error" /\ r.body = "not_json" -> "JSONDecodeError"
      [] OTHER -> "none"

Prelude == <<[k |-> "prelude"]>>

(***************************************************************************)
(* A run of the script.                                                    *)
(***************************************************************************)
ScanIdle ==
    /\ data' = <<>>
    /\ pos' = 1
    /\ name' = None
    /\ fpos' = 1
    /\ field' = None
    /\ message' = <<>>
    /\ matches' = <<>>
    /\ spc' = "idle"

\* the process ends: exit(code), or an uncaught exception's traceback
Exit(st, ex, out) ==
    /\ pc' = "idle"
    /\ status' = st
    /\ exc' = ex
    /\ printed' = printed \cup out

Goto(label, out) ==
    /\ pc' = label
    /\ printed' = printed \cup out
    /\ UNCHANGED <<status, exc>>

\* args = argp.parse_args()
StartRun(argset) ==
    /\ pc = "idle"
    /\ args' \in argset
    /\ pc' = "import"
    /\ status' = "running"
    /\ exc' = "none"
    /\ printed' = {}
    /\ requests' = <<>>
    /\ opened' = {}
    /\ files0' = files
    /\ boot' = "pending"
    /\ Backup' = None
    /\ git' = <<>>
    /\ gi' = 1
    /\ flist' = <<>>
    /\ schema' = <<>>
    /\ protocRan' = FALSE
    /\ backup_data' = None
    /\ msg' = None
    /\ UNCHANGED <<scanVars, dirVars>>

\* a faulty variant of Importable: the schema is generated on every run
ImportableNever(c) == "ModuleNotFoundError"

\* try: from schema_pb2 import Backup
Importable(c) == ImportOutcome(c)

\* except (ModuleNotFoundError, NameError): print('No protobuf schema found...')
ImportBackup ==
    /\ pc = "import"
    /\ LET o == Importable(files[SchemaPb2])
       IN  IF o = "ok"
           THEN /\ boot' = "imported"
                /\ Backup' = Some(files[SchemaPb2].fork)
                /\ Goto("main", {})
                /\ UNCHANGED schema
           ELSE IF o \in {"ModuleNotFoundError", "NameError"}
           THEN /\ boot' = "generating"
                /\ schema' = Prelude
                /\ Goto("fetch", {"No protobuf schema found...", "... Fetching"})
                /\ UNCHANGED Backup
           ELSE /\ Exit("traceback", o, {})
                /\ UNCHANGED <<boot, Backup, schema>>
    /\ UNCHANGED <<scanVars, dirVars, args, requests, opened, files0, git, gi, flist,
                   protocRan, backup_data, msg>>

\* fetch_schema: git = requests.get(<models directory>).json()
FetchListing ==
    /\ pc = "fetch"
    /\ \E r \in ListingResponses :
          /\ requests' = Append(requests, [url |-> "models", outcome |-> r.outcome])
          /\ IF ListingRaises(r) # "none"
             THEN Exit("traceback", ListingRaises(r), {}) /\ UNCHANGED git
             ELSE /\ git' = IF r.outcome = "ok" THEN TopListing ELSE <<>>
                  /\ Goto("entries", {})
    /\ UNCHANGED <<scanVars, dirVars, args, opened, files0, boot, Backup, gi, flist,
                   schema, protocRan, backup_data, msg>>

\* if entry.get('type') == 'file': files.append(...)
EntryFile ==
    /\ pc = "entries"
    /\ gi <= Len(git)
    /\ git[gi].type = "file"
    /\ flist' = Append(flist, git[gi].name)
    /\ gi' = gi + 1
    /\ UNCHANGED <<scanVars, dirVars, args, pc, status, exc, printed, requests, opened,
                   files0, boot, Backup, git, schema, protocRan, backup_data, msg>>

\* elif entry.get('type') == 'dir': for sub_entry in requests.get(url).json()
EntryDir ==
    /\ pc = "entries"
    /\ gi <= Len(git)
    /\ git[gi].type = "dir"
    /\ \E r \in ListingResponses :
          /\ requests' = Append(requests, [url |-> git[gi].name, outcome |-> r.outcome])
          /\ IF ListingRaises(r) # "none"
             THEN Exit("traceback", ListingRaises(r), {}) /\ UNCHANGED <<flist, gi>>
             ELSE /\ flist' = IF r.outcome = "ok"
                              THEN flist \o [i \in 1..Len(SelectSeq(SubListing,
                                                  LAMBDA e : e.type = "file")) |->
                                       SelectSeq(SubListing,
                                                 LAMBDA e : e.type = "file")[i].name]
                              ELSE flist
                  /\ gi' = gi + 1
                  /\ UNCHANGED <<pc, status, exc, printed>>
    /\ UNCHANGED <<scanVars, dirVars, args, opened, files0, boot, Backup, git, schema,
                   protocRan, backup_data, msg>>

\* an entry that is neither a file nor a directory is passed over
EntryOther ==
    /\ pc = "entries"
    /\ gi <= Len(git)
    /\ git[gi].type \notin {"file", "dir"}
    /\ gi' = gi + 1
    /\ UNCHANGED <<scanVars, dirVars, args, pc, status, exc, printed, requests, opened,
                   files0, boot, Backup, git, flist, schema, protocRan, backup_data, msg>>

\* return files
FetchReturn ==
    /\ pc = "entries"
    /\ gi > Len(git)
    /\ Goto("models", {})
    /\ UNCHANGED <<scanVars, dirVars, args, requests, opened, files0, boot, Backup, git,
                   gi, flist, schema, protocRan, backup_data, msg>>

\* for i in fetch_schema(...): schema.append(f'// {i[0]}'); parse_model(i[1]):
\* data = requests.get(model).text
ParseModelGet ==
    /\ pc = "models"
    /\ flist # <<>>
    /\ schema' = Append(schema, [k |-> "comment", name |-> Head(flist)])
    /\ \E r \in DownloadResponses(Head(flist)) :
          /\ requests' = Append(requests, [url |-> Head(flist), outcome |-> r.outcome])
          /\ IF r.outcome = "exception"
             THEN Exit("traceback", "ConnectionError", {"... Parsing"})
                  /\ UNCHANGED scanVars
             ELSE /\ data' = r.text
                  /\ pos' = 1
                  /\ name' = None
                  /\ fpos' = 1
                  /\ field' = None
                  /\ message' = <<>>
                  /\ matches' = <<>>
                  /\ spc' = "classes"
                  /\ Goto("parsing", {"... Parsing"})
    /\ UNCHANGED <<dirVars, args, opened, files0, boot, Backup, git, gi, flist,
                   protocRan, backup_data, msg>>

\* schema.extend(parse_model(i[1]))
ExtendSchema ==
    /\ pc = "parsing"
    /\ spc = "done"
    /\ schema' = schema \o message
    /\ flist' = Tail(flist)
    /\ ScanIdle
    /\ Goto("models", {})
    /\ UNCHANGED <<dirVars, args, requests, opened, files0, boot, Backup, git, gi,
                   protocRan, backup_data, msg>>

\* parse_model raised: nothing catches it
ParseRaised ==
    /\ pc = "parsing"
    /\ spc = "raised"
    /\ ScanIdle
    /\ Exit("traceback", "TypeError", {})
    /\ UNCHANGED <<dirVars, args, requests, opened, files0, boot, Backup, git, gi,
                   flist, schema, protocRan, backup_data, msg>>

\* print('\n'.join(schema), file=open('schema.proto', 'wt'))
WriteSchema ==
    /\ pc = "models"
    /\ flist = <<>>
    /\ files' = [files EXCEPT ![SchemaProto] =
                    [t |-> "proto", fork |-> args.fork, schema |-> schema]]
    /\ Goto("protoc", {"Generating Python sources..."})
    /\ UNCHANGED <<scanVars, lastPayload, args, requests, opened, files0, boot, Backup,
                   git, gi, flist, schema, protocRan, backup_data, msg>>

\* run(['protoc', '--python_out=.', '--pyi_out=.', 'schema.proto']): protoc is
\* missing (FileNotFoundError: exit(1)), compiles the schema, or rejects it
RunProtoc ==
    /\ pc = "protoc"
    /\ protocRan' = TRUE
    /\ \E o \in {"missing", "compiled", "rejected"} :
          IF o = "missing"
          THEN Exit("exit1", "none", {"ERROR! Protoc not found."}) /\ UNCHANGED files
          ELSE /\ files' = IF o = "compiled"
                           THEN [files EXCEPT ![SchemaPb2] = Compile(files[SchemaProto])]
                           ELSE files
               /\ Goto("import2", {})
    /\ UNCHANGED <<scanVars, lastPayload, args, requests, opened, files0, boot, Backup,
                   git, gi, flist, schema, backup_data, msg>>

\* the second try: from schema_pb2 import Backup
Import2 ==
    /\ pc = "import2"
    /\ LET o == ImportOutcome(files[SchemaPb2])
       IN  IF o = "ok"
           THEN Backup' = Some(files[SchemaPb2].fork) /\ Goto("main", {})
           ELSE IF o \in {"ModuleNotFoundError", "NameError"}
           THEN /\ Exit("exit1", "none",
                        {"ERROR! Still unable to find the protobuf schema. Aborting."})
                /\ UNCHANGED Backup
           ELSE Exit("traceback", o, {}) /\ UNCHANGED Backup
    /\ UNCHANGED <<scanVars, dirVars, args, requests, opened, files0, boot, git, gi,
                   flist, schema, protocRan, backup_data, msg>>

\* if __name__ == '__main__': input = str(args.input)
Main ==
    /\ pc = "main"
    /\ IF EndsWith(Str(args.input), <<"json">>)
       THEN Goto("parse_json", {})
       ELSE Goto("read_backup", {})
    /\ UNCHANGED <<scanVars, dirVars, args, requests, opened, files0, boot, Backup, git,
                   gi, flist, schema, protocRan, backup_data, msg>>

\* open(file, mode) raises ValueError unless mode names exactly one of r, w, a, x
OpenRaisesValueError(mode) == Cardinality(mode \cap {"r", "w", "a", "x"}) # 1

\* parse_json: open(input, 'b'), file.read(), Parse(...).SerializeToString()
ParseJson ==
    /\ pc = "parse_json"
    /\ IF OpenRaisesValueError({"b"})
       THEN Exit("traceback", "ValueError", {}) /\ UNCHANGED <<opened, backup_data>>
       ELSE IF FileAt(files, Str(args.input)) = Absent
       THEN /\ Exit("exit1", "none", {"ERROR! Could not read the JSON file."})
            /\ UNCHANGED <<opened, backup_data>>
       ELSE /\ opened' = opened \cup {Str(args.input)}
            /\ IF Parse(FileAt(files, Str(args.input))) = None
               THEN /\ Exit("exit1", "none", {"The input JSON file is invalid."})
                    /\ UNCHANGED backup_data
               ELSE /\ backup_data' =
                          Some(SerializeToString(Parse(FileAt(files, Str(args.input)))[1]))
                    /\ Goto("write_backup", {})
    /\ UNCHANGED <<scanVars, dirVars, args, requests, files0, boot, Backup, git, gi,
                   flist, schema, protocRan, msg>>

\* a faulty variant of CacheAfter: the cache is truncated before the input is decompressed
CacheAfterEarly(f, d) ==
    [f EXCEPT ![ExtractedTachibk] = IF d = None THEN [t |-> "empty"] ELSE d[1]]

\* with open('extracted_tachibk', 'wb') as file: file.write(backup_data), reached
\* only once zip.read() has returned
CacheAfter(f, d) ==
    IF d = None THEN f ELSE [f EXCEPT ![ExtractedTachibk] = d[1]]

\* read_backup
ReadBackup ==
    /\ pc = "read_backup"
    /\ IF IsCompressedName(Str(args.input))
       THEN LET c == FileAt(files, Str(args.input))
                d == GzipDecompress(c)
            IN  IF c = Absent
                THEN /\ Exit("traceback", "FileNotFoundError", {})
                     /\ UNCHANGED <<opened, backup_data, dirVars>>
                ELSE /\ opened' = opened \cup {Str(args.input)}
                     /\ files' = CacheAfter(files, d)
                     /\ IF d = None
                        THEN /\ Exit("traceback", "BadGzipFile", {})
                             /\ UNCHANGED <<backup_data, lastPayload>>
                        ELSE /\ backup_data' = d
                             /\ lastPayload' = d
                             /\ Goto("parse_backup", {})
       ELSE IF files[ExtractedTachibk] = Absent
       THEN /\ Exit("exit1", "none", {"ERROR! No Backup to process.", "usage"})
            /\ UNCHANGED <<opened, backup_data, dirVars>>
       ELSE /\ opened' = opened \cup {ExtractedTachibk}
            /\ backup_data' = Some(files[ExtractedTachibk])
            /\ Goto("parse_backup", {})
            /\ UNCHANGED dirVars
    /\ UNCHANGED <<scanVars, args, requests, files0, boot, Backup, git, gi, flist,
                   schema, protocRan, msg>>

\* parse_backup: message = Backup(); message.ParseFromString(backup_data)
ParseBackup ==
    /\ pc = "parse_backup"
    /\ IF ParseFromString(backup_data[1]) = None
       THEN Exit("traceback", "DecodeError", {}) /\ UNCHANGED msg
       ELSE msg' = ParseFromString(backup_data[1]) /\ Goto("write_json", {})
    /\ UNCHANGED <<scanVars, dirVars, args, requests, opened, files0, boot, Backup, git,
                   gi, flist, schema, protocRan, backup_data>>

\* write_json: open(args.output, 'wt').write(MessageToJson(message))
WriteJson ==
    /\ pc = "write_json"
    /\ files' = [files EXCEPT ![args.output] = MessageToJson(msg[1])]
    /\ Exit("exit0", "none", {"Backup decoded"})
    /\ UNCHANGED <<scanVars, lastPayload, args, requests, opened, files0, boot, Backup,
                   git, gi, flist, schema, protocRan, backup_data, msg>>

\* write_backup(message): message is the bytes parse_json returned (backup_data)
WriteBackup ==
    /\ pc = "write_backup"
    /\ LET output == IF args.output = OutputJson THEN EncodedBackup ELSE args.output
       IN  IF EndsWith(output, <<"proto", "gz">>) \/ EndsWith(output, <<"tachibk">>)
           THEN /\ files' = [files EXCEPT ![output] = GzipCompress(backup_data[1])]
                /\ Exit("exit0", "none", {"Compressed backup written"})
           ELSE /\ files' = [files EXCEPT ![output] = backup_data[1]]
                /\ Exit("exit0", "none", {"Uncompressed backup written"})
    /\ UNCHANGED <<scanVars, lastPayload, args, requests, opened, files0, boot, Backup,
                   git, gi, flist, schema, protocRan, backup_data, msg>>

(***************************************************************************)
(* Conversions: runs in a directory that holds a generated serializer.     *)
(***************************************************************************)
ScanAtRest ==
    /\ data = <<>>
    /\ pos = 1
    /\ name = None
    /\ fpos = 1
    /\ field = None
    /\ message = <<>>
    /\ matches = <<>>
    /\ spc = "idle"

Generated(fork) == [t |-> "proto", fork |-> fork, schema |-> Prelude]

ConvArgs ==
    {[input |-> i, output |-> OutputJson, fork |-> f, given |-> FALSE] :
        i \in {None, InTachibk, InProtoGz, InBin, InJson, ExtractedTachibk},
        f \in {"mihon", "sy"}}
    \cup
    {[input |-> i, output |-> o, fork |-> "mihon", given |-> TRUE] :
        i \in {None, InTachibk, InProtoGz, InBin, InJson, ExtractedTachibk},
        o \in {OutBin, ExtractedTachibk}}

ConvInit ==
    /\ ScanAtRest
    /\ \E a \in {Absent, GzipCompress(SerializeToString("m1")), GzipCompress(Junk), BadGz},
          b \in {Absent, GzipCompress(SerializeToString("m2"))},
          c \in {Absent, SerializeToString("m2")},
          j \in {Absent, MessageToJson("m1"), BadJson} :
          files = [p \in AllPaths |->
                      CASE p = InTachibk -> a
                        [] p = InProtoGz -> b
                        [] p = InBin -> c
                        [] p = InJson -> j
                        [] p = SchemaProto -> Generated("mihon")
                        [] p = SchemaPb2 -> Compile(Generated("mihon"))
                        [] OTHER -> Absent]
    /\ lastPayload = None
    /\ RunIdle

StartConv == StartRun(ConvArgs)

ConvNext ==
    \/ StartConv
    \/ ImportBackup
    \/ Main
    \/ ParseJson
    \/ ReadBackup
    \/ ParseBackup
    \/ WriteJson

SpecConv == ConvInit /\ [][ConvNext]_vars

(***************************************************************************)
(* The bootstrap: runs that start in a fresh checkout.                     *)
(***************************************************************************)
BootArgs ==
    {[input |-> i, output |-> OutputJson, fork |-> f, given |-> FALSE] :
        i \in {None, InTachibk, InJson}, f \in FORKS}
    \cup
    {[input |-> InTachibk, output |-> o, fork |-> "sy", given |-> TRUE] :
        o \in {SchemaProto, SchemaPb2}}

BootInit ==
    /\ ScanAtRest
    /\ \E a \in {GzipCompress(SerializeToString("m1")),
                 GzipCompress(SerializeToString("m2"))} :
          files = [p \in AllPaths |-> IF p = InTachibk THEN a ELSE Absent]
    /\ lastPayload = None
    /\ RunIdle

StartBoot == StartRun(BootArgs)

BootNext ==
    \/ StartBoot
    \/ ImportBackup
    \/ FetchListing
    \/ EntryFile
    \/ EntryDir
    \/ EntryOther
    \/ FetchReturn
    \/ ParseModelGet
    \/ ClassFound
    \/ FieldFound
    \/ ClassDone
    \/ ScanDone
    \/ ExtendSchema
    \/ ParseRaised
    \/ WriteSchema
    \/ RunProtoc
    \/ Import2
    \/ Main
    \/ ParseJson
    \/ ReadBackup
    \/ ParseBackup
    \/ WriteJson

SpecBoot == BootInit /\ [][BootNext]_vars

(***************************************************************************)
(* write_backup on its own: every message and output path it can be given. *)
(***************************************************************************)
WriteArgs ==
    {[input |-> InJson, output |-> OutputJson, fork |-> f, given |-> FALSE] : f \in FORKS}
    \cup
    {[input |-> InJson, output |-> o, fork |-> f, given |-> TRUE] :
        o \in {OutputJson, OutTachibk, OutProtoGz, OutBin, InJson, EncodedBackup,
               ExtractedTachibk},
        f \in FORKS}

WriteInit ==
    /\ ScanAtRest
    /\ \E old \in {Absent, GzipCompress(SerializeToString("m1"))} :
          files = [p \in AllPaths |-> IF p = EncodedBackup THEN old ELSE Absent]
    /\ lastPayload = None
    /\ args \in WriteArgs
    /\ pc = "write_backup"
    /\ status = "running"
    /\ exc = "none"
    /\ printed = {}
    /\ requests = <<>>
    /\ opened = {InJson}
    /\ files0 = files
    /\ boot = "imported"
    /\ Backup = Some("mihon")
    /\ git = <<>>
    /\ gi = 1
    /\ flist = <<>>
    /\ schema = <<>>
    /\ protocRan = FALSE
    /\ backup_data \in {Some(SerializeToString(m)) : m \in Messages}
    /\ msg = None

WriteNext == WriteBackup

SpecWrite == WriteInit /\ [][WriteNext]_vars

(***************************************************************************)
(* What the source text says, read off the tokens without the patterns.    *)
(***************************************************************************)
Last(s) == s[Len(s)]

\* the position of the parenthesis closing the one opened at i (depth counted
\* from 1 after i), or 0 when it is never closed
RECURSIVE CloseFrom(_, _, _)
CloseFrom(text, j, depth) ==
    IF j > Len(text) THEN 0
    ELSE IF IsOpen(text[j]) THEN CloseFrom(text, j + 1, depth + 1)
    ELSE IF IsClose(text[j])
         THEN IF depth = 1 THEN j ELSE CloseFrom(text, j + 1, depth - 1)
    ELSE CloseFrom(text, j + 1, depth)

\* the deepest nesting of parentheses inside text
RECURSIVE DepthFrom(_, _, _)
DepthFrom(text, j, depth) ==
    IF j > Len(text) THEN depth
    ELSE IF IsOpen(text[j])
         THEN LET d == DepthFrom(text, j + 1, depth + 1)
              IN  IF d > depth THEN d ELSE depth
    ELSE IF IsClose(text[j]) THEN
              LET d == DepthFrom(text, j + 1, depth - 1)
              IN  IF d > depth THEN d ELSE depth
    ELSE DepthFrom(text, j + 1, depth)

Depth(text) == DepthFrom(text, 1, 0)

\* the class definitions of text from position i on, in source order, each with
\* the text between its opening parenthesis and the matching closing one
RECURSIVE ClassDefinitions(_, _)
ClassDefinitions(text, i) ==
    IF i > Len(text) THEN <<>>
    ELSE IF text[i].k = "class" /\ CloseFrom(text, i + 1, 1) # 0
         THEN <<[name |-> text[i].name,
                 defs |-> SubSeq(text, i + 1, CloseFrom(text, i + 1, 1) - 1)]>>
              \o ClassDefinitions(text, CloseFrom(text, i + 1, 1) + 1)
    ELSE ClassDefinitions(text, i + 1)

ShallowOnly(defsSeq) == SelectSeq(defsSeq, LAMBDA c : Depth(c.defs) <= 2)

MessageHeaders == SelectSeq(message, LAMBDA l : l.k = "message")

\* a field line has just been emitted for the match in `field`
FieldEmitted == spc = "fields" /\ field # None

DeclaredTag(t) == IF t.lead = "annot" THEN t.number ELSE 1
HasMarker(t) == t.nullable \/ t.dflt # "none"

(***************************************************************************)
(* C1: for every recognised field the emitted tag number is the            *)
(* @ProtoNumber value (1 when there is none), plus one exactly when the    *)
(* class name starts with "Broken"; a field line is emitted in all four    *)
(* cases and the scan completes (it never dies on an exception).           *)
(***************************************************************************)
C1_TagNumber ==
    /\ spc # "raised"
    /\ FieldEmitted =>
          /\ Last(message).k = "field"
          /\ Last(message).number =
                DeclaredTag(field[1].src)
                + (IF StartsWith(name[1].name, Broken) THEN 1 ELSE 0)

(***************************************************************************)
(* C2 as stated: the emitted cardinality is `repeated` exactly when the    *)
(* type is List<T> or Set<T>, `optional` exactly when the declaration has  *)
(* a nullable marker or a default value, `required` otherwise.             *)
(***************************************************************************)
C2_Original ==
    FieldEmitted =>
        LET t == field[1].src
            c == Last(message).repeated
        IN  /\ (c = "repeated") <=> IsCollection(t)
            /\ (c = "optional") <=> HasMarker(t)
            /\ (c = "required") <=> (~IsCollection(t) /\ ~HasMarker(t))

(***************************************************************************)
(* C2 amended: the emitted cardinality is `repeated` exactly when the type *)
(* is List<T> or Set<T>, whatever markers follow; otherwise `optional`     *)
(* exactly when the type name is directly followed by `?` or by an         *)
(* optional colon, whitespace and `=`; `required` in every other case      *)
(* (among them a default written without whitespace before `=`, and any    *)
(* marker that follows the parameter list of another generic type).        *)
(***************************************************************************)
C2_Amended ==
    FieldEmitted =>
        LET t == field[1].src
            c == Last(message).repeated
            seen == t.tshape = "plain" /\ (t.nullable \/ t.dflt \in {"spaced", "colon"})
        IN  /\ (c = "repeated") <=> IsCollection(t)
            /\ (c = "optional") <=> seen
            /\ (c = "required") <=> (~IsCollection(t) /\ ~seen)

\* a nullable List<T> with a default value has been emitted as repeated
C2_Witness ==
    /\ FieldEmitted
    /\ IsCollection(field[1].src)
    /\ field[1].src.nullable
    /\ field[1].src.dflt = "spaced"
    /\ Last(message).repeated = "repeated"

(***************************************************************************)
(* C3 as stated: one message per class definition, in source order, and    *)
(* the body handed to the field scan is the text between the opening       *)
(* parenthesis and its matching closing one, for any depth of nesting.     *)
(***************************************************************************)
C3_Original ==
    spc = "done" =>
        /\ matches = ClassDefinitions(data, 1)
        /\ Len(MessageHeaders) = Len(matches)
        /\ \A i \in 1..Len(matches) : MessageHeaders[i].name = matches[i].name

(***************************************************************************)
(* C3 amended: the same for every class definition whose body nests        *)
(* balanced parentheses at most two levels deep; a class definition whose  *)
(* body nests them deeper is not matched and yields no message.            *)
(***************************************************************************)
C3_Amended ==
    spc = "done" =>
        /\ matches = ShallowOnly(ClassDefinitions(data, 1))
        /\ Len(MessageHeaders) = Len(matches)
        /\ \A i \in 1..Len(matches) : MessageHeaders[i].name = matches[i].name

\* a file of two classes, one nesting two levels deep, scanned to the end
C3_Witness ==
    /\ spc = "done"
    /\ Len(matches) = 2
    /\ \E i \in 1..2 : Depth(matches[i].defs) = 2

(***************************************************************************)
(* What a run was asked to do, and how it ended.                           *)
(***************************************************************************)
RunEnded == pc = "idle" /\ status \in {"exit0", "exit1", "traceback"}
IsEncode == EndsWith(Str(args.input), <<"json">>)
IsDecode == ~IsEncode
OtherDecode == IsDecode /\ ~IsCompressedName(Str(args.input))
Failed(r) == r.outcome \in {"exception", "error"}
PayloadOrAbsent == IF lastPayload = None THEN Absent ELSE lastPayload[1]

(***************************************************************************)
(* C4: during schema generation a single failed request (a transport       *)
(* exception or an error response, for a listing or a download) aborts the *)
(* run: no further request is made, schema.proto is not written and the    *)
(* schema compiler is not invoked.                                         *)
(***************************************************************************)
C4_AbortOnFailure ==
    (\E i \in 1..Len(requests) : Failed(requests[i])) =>
        /\ \A i \in 1..(Len(requests) - 1) : ~Failed(requests[i])
        /\ files[SchemaProto] = files0[SchemaProto]
        /\ ~protocRan

(***************************************************************************)
(* C5: an encode run on a readable, schema-valid .json input with the      *)
(* output left at its default writes encoded_backup.tachibk, compressed,   *)
(* and decoding that file yields the structure of the JSON input.          *)
(***************************************************************************)
C5_EncodeRoundTrip ==
    (/\ RunEnded
     /\ IsEncode
     /\ ~args.given
     /\ Parse(FileAt(files0, Str(args.input))) # None) =>
        /\ GzipDecompress(files[EncodedBackup]) # None
        /\ ParseFromString(GzipDecompress(files[EncodedBackup])[1])
              = Parse(FileAt(files0, Str(args.input)))

(***************************************************************************)
(* C6: write_backup writes the message compressed to an output path that   *)
(* ends in .tachibk or .proto.gz and uncompressed to any other output path *)
(* the caller passes, and uses encoded_backup.tachibk only when the caller *)
(* passed no output path.                                                  *)
(***************************************************************************)
C6_WriteBackup ==
    (RunEnded /\ args.given) =>
        /\ IsCompressedName(args.output) =>
              files[args.output] = GzipCompress(backup_data[1])
        /\ ~IsCompressedName(args.output) => files[args.output] = backup_data[1]
        /\ args.output # EncodedBackup => files[EncodedBackup] = files0[EncodedBackup]

(***************************************************************************)
(* C7: a decode run with no input file present (no input path, or an input *)
(* path of any extension naming a missing file) and no extracted_tachibk   *)
(* ends with a non-zero status after printing "No Backup to process" and   *)
(* the usage help, and creates no file.                                    *)
(***************************************************************************)
C7_NoBackup ==
    (/\ RunEnded
     /\ IsDecode
     /\ FileAt(files0, Str(args.input)) = Absent
     /\ files0[ExtractedTachibk] = Absent) =>
        /\ status # "exit0"
        /\ {"ERROR! No Backup to process.", "usage"} \subseteq printed
        /\ files = files0

(***************************************************************************)
(* C8: a conversion that meets a parse error (a malformed JSON mirror, or  *)
(* a payload that does not match the schema) ends in an error with a short *)
(* diagnostic printed by the program, and the run creates or modifies no   *)
(* file at all.                                                            *)
(***************************************************************************)
C8_ParseError ==
    (/\ RunEnded
     /\ \/ IsEncode /\ FileAt(files0, Str(args.input)) = BadJson
        \/ IsDecode /\ backup_data # None /\ ParseFromString(backup_data[1]) = None) =>
        /\ status = "exit1"
        /\ printed # {}
        /\ files = files0

(***************************************************************************)
(* C9 as stated: a decode run whose input path has none of the three       *)
(* extensions never reads the file at its input path; it decodes the       *)
(* content of extracted_tachibk, which is always the payload of the latest *)
(* complete decompression; a run whose decompression fails and every       *)
(* encode run leave the cache unchanged.                                   *)
(***************************************************************************)
C9_Original ==
    /\ (status # "none" /\ OtherDecode) => Str(args.input) \notin opened
    /\ (OtherDecode /\ backup_data # None) => backup_data[1] = files0[ExtractedTachibk]
    /\ files[ExtractedTachibk] = PayloadOrAbsent
    /\ (RunEnded /\ exc = "BadGzipFile") =>
          files[ExtractedTachibk] = files0[ExtractedTachibk]
    /\ (RunEnded /\ IsEncode) => files[ExtractedTachibk] = files0[ExtractedTachibk]

(***************************************************************************)
(* C9 amended: such a decode run opens no file but extracted_tachibk for   *)
(* reading (so it reads its input path only when that path is              *)
(* extracted_tachibk itself) and decodes that file's content, which is the *)
(* payload of the latest complete decompression unless a later decode run  *)
(* was given extracted_tachibk as its output path and wrote its JSON there;*)
(* a run whose decompression fails and every encode run leave the cache    *)
(* unchanged.                                                              *)
(***************************************************************************)
C9_Amended ==
    /\ (status # "none" /\ OtherDecode) => opened \subseteq {ExtractedTachibk}
    /\ (OtherDecode /\ backup_data # None) => backup_data[1] = files0[ExtractedTachibk]
    /\ \/ files[ExtractedTachibk] = PayloadOrAbsent
       \/ files[ExtractedTachibk].t = "json"
    /\ (files[ExtractedTachibk] # files0[ExtractedTachibk]
           /\ files[ExtractedTachibk].t = "json") =>
          /\ IsDecode
          /\ args.output = ExtractedTachibk
          /\ status = "exit0"
          /\ files[ExtractedTachibk] = MessageToJson(msg[1])
    /\ (IsDecode /\ IsCompressedName(Str(args.input)) /\ backup_data # None
           /\ pc # "idle") =>
          files[ExtractedTachibk] = backup_data[1] /\ lastPayload = backup_data
    /\ (RunEnded /\ exc = "BadGzipFile") =>
          files[ExtractedTachibk] = files0[ExtractedTachibk]
    /\ (RunEnded /\ IsEncode) => files[ExtractedTachibk] = files0[ExtractedTachibk]

\* a decode of in.bin, which exists, has decoded the payload an earlier run cached
C9_Witness ==
    /\ RunEnded
    /\ status = "exit0"
    /\ args.input = InBin
    /\ files0[InBin] # Absent
    /\ InBin \notin opened
    /\ lastPayload # None
    /\ backup_data = lastPayload
    /\ backup_data[1] # files0[InBin]
    /\ files[args.output] = MessageToJson(ParseFromString(lastPayload[1])[1])

(***************************************************************************)
(* C10 as stated: a run generates the schema only if the serializer cannot *)
(* be imported when it starts; a run that can import it makes no request   *)
(* and leaves schema.proto and the serializer unchanged whatever variant   *)
(* is selected, so the generating run's variant governs later conversions. *)
(***************************************************************************)
C10_Original ==
    /\ (boot = "generating" \/ requests # <<>> \/ protocRan) =>
          ImportOutcome(files0[SchemaPb2]) # "ok"
    /\ boot = "imported" =>
          /\ requests = <<>>
          /\ ~protocRan
          /\ files[SchemaProto] = files0[SchemaProto]
          /\ files[SchemaPb2] = files0[SchemaPb2]
          /\ Backup = Some(files0[SchemaPb2].fork)
    /\ (boot = "generating" /\ Backup # None) => Backup = Some(args.fork)

(***************************************************************************)
(* C10 amended: the same, except that a decode run given schema.proto or   *)
(* schema_pb2.py as its output path overwrites that file with its JSON     *)
(* output; a run that can import the serializer changes neither file in    *)
(* any other way.                                                          *)
(***************************************************************************)
C10_Amended ==
    /\ (boot = "generating" \/ requests # <<>> \/ protocRan) =>
          ImportOutcome(files0[SchemaPb2]) # "ok"
    /\ boot = "imported" =>
          /\ requests = <<>>
          /\ ~protocRan
          /\ \A p \in {SchemaProto, SchemaPb2} :
                \/ files[p] = files0[p]
                \/ /\ args.output = p
                   /\ IsDecode
                   /\ status = "exit0"
                   /\ files[p] = MessageToJson(msg[1])
          /\ Backup = Some(files0[SchemaPb2].fork)
    /\ (boot = "generating" /\ Backup # None) => Backup = Some(args.fork)

\* a conversion under another variant selector than the serializer's has ended
C10_Witness ==
    /\ RunEnded
    /\ status = "exit0"
    /\ boot = "imported"
    /\ Backup # Some(args.fork)
    /\ requests = <<>>
    /\ files[SchemaProto] = files0[SchemaProto]
    /\ files[SchemaProto].t = "proto"
    /\ files[SchemaProto].fork = Backup[1]
    /\ files[SchemaPb2] = files0[SchemaPb2]

====
